---- MODULE Spec2Model ----
(***************************************************************************)
(* State-machine model of PageProcessor (src/page_processor.py) and of the *)
(* ArabicHandler measuring contract (src/arabic_handler.py).               *)
(*                                                                         *)
(* Two operations are modelled, each with its own specification:           *)
(*   SpecOverlay  create_translated_overlay with _find_optimal_position,   *)
(*                _check_overlap, _draw_text_block, _draw_connection_line  *)
(*                and _create_empty_page;                                  *)
(*   SpecPage     process_page with _should_process_block and              *)
(*                _process_batch.                                          *)
(*                                                                         *)
(* Coordinates are Python floats in the source.  Every value the code      *)
(* computes is a multiple of 1/20 pt (0.6 * 14 * len, 1.5 * 14 and the     *)
(* halves of _draw_connection_line), so coordinates are integers counting  *)
(* 1/20 pt and the arithmetic is exact.                                    *)
(***************************************************************************)
EXTENDS Integers, Sequences, FiniteSets, TLC

\* ------------------------------------------------------------------ bounds
MaxOverlayBlocks == 3

\* ------------------------------------------------------- program constants
FontSize == 14
Margin == 5
RowGap == 5
ColumnGap == 10
Padding == 4
BatchSize == 10

\* 1 pt = Unit model units (tenths for 0.6 and 1.5, halves for the line).
Unit == 2 * 10
Pt(n) == n * Unit

Max(a, b) == IF a >= b THEN a ELSE b
Min(a, b) == IF a <= b THEN a ELSE b

\* dict.get(key, default)
Get(d, k, default) == IF k \in DOMAIN d THEN d[k] ELSE default

RECURSIVE Reverse(_)
Reverse(s) == IF s = <<>> THEN <<>> ELSE Append(Reverse(Tail(s)), Head(s))

\* ------------------------------------------------------------ ArabicHandler
\* Letters of right-to-left script (transliterated names stand for letters).
RTLChars == {"alef", "lam", "meem", "ra", "ha", "ba"}

\* process_text: reshape + bidi display order; a right-to-left run is stored
\* in visual (reversed) order, other text is unchanged.  Never raises.
ProcessText(text) ==
    IF text # <<>> /\ \A k \in 1..Len(text) : text[k] \in RTLChars
    THEN Reverse(text)
    ELSE text

\* get_text_dimensions: (len * font_size * 0.6, font_size * 1.5)
GetTextDimensions(text) ==
    << (Len(ProcessText(text)) * FontSize * 6 * Unit) \div 10,
       (FontSize * 15 * Unit) \div 10 >>

TextHeight == GetTextDimensions(<<>>)[2]

\* --------------------------------------------------------------- variables
VARIABLES
    \* create_translated_overlay
    page_size,          \* argument: <<w, h>>, or a malformed tuple
    translated_blocks,  \* argument: sequence of block dicts
    fontRegistered,     \* whether initialize_fonts registered 'Arabic'
    pc,                 \* position in create_translated_overlay
    dims,               \* locals width, height: <<>> while unbound
    i,                  \* index of the block the for loop is at
    used_positions,     \* local list of placed (x, y, w, h)
    surface,            \* drawing operations issued on canvas c
    x, y,               \* candidate of _find_optimal_position
    log,                \* blocks whose exception the per-block handler logged
    result,             \* what the call returned or raised
    \* process_page
    page_content,       \* argument: sequence of block dicts
    page_num,           \* argument
    ppc,                \* position in process_page
    sorted_content,     \* local
    j,                  \* index of the block the for loop is at
    text_batch,         \* local
    blocks_to_process,  \* local
    page_translated,    \* local translated_blocks of process_page
    calls,              \* calls of _process_batch: arguments and reply
    page_result         \* what process_page returned

overlayVars == << page_size, translated_blocks, fontRegistered, pc, dims, i,
                  used_positions, surface, x, y, log, result >>

pageVars == << page_content, page_num, ppc, sorted_content, j, text_batch,
               blocks_to_process, page_translated, calls, page_result >>

vars == << overlayVars, pageVars >>

\* ---------------------------------------------------------------- inputs
Hello == << "H", "e", "l", "l", "o" >>
World == << "W", "o", "r", "l", "d" >>
Marhaban == << "meem", "ra", "ha", "ba", "alef", "meem", "ra", "ha", "ba", "alef" >>

Bbox(x0, y0, x1, y1) == << Pt(x0), Pt(y0), Pt(x1), Pt(y1) >>

TBlock(text, bbox) ==
    [type |-> "text", text |-> text, original_bbox |-> bbox]

OverlayBlockChoices ==
    { TBlock(Hello, Bbox(10, 700, 60, 720)),
      TBlock(World, Bbox(10, 650, 60, 670)),
      TBlock(Hello, Bbox(120, 40, 170, 60)),
      TBlock(Marhaban, Bbox(10, 700, 60, 720)),
      [type |-> "image", text |-> Hello, original_bbox |-> Bbox(10, 700, 60, 720)],
      TBlock(<<>>, Bbox(10, 700, 60, 720)),
      [type |-> "text", text |-> Hello] }

Letter == << Pt(612), Pt(792) >>
OneRow == << Pt(200), (3 * TextHeight) \div 2 >>
OneSlot == << Pt(52), (3 * TextHeight) \div 2 >>
Tiny == << Pt(30), Pt(20) >>
PageSizes == { Letter, OneRow, OneSlot, Tiny, <<>> }

SeqsUpTo(S, n) == UNION { [1..k -> S] : k \in 0..n }

\* ------------------------------------------------------ results of a call
NoResult == [kind |-> "none", size |-> <<>>, ops |-> <<>>]
Packet(size, ops) == [kind |-> "packet", size |-> size, ops |-> ops]
Raised(exc) == [kind |-> exc, size |-> <<>>, ops |-> <<>>]

\* _create_empty_page(width, height)
CreateEmptyPage(width, height) == Packet(<< width, height >>, <<>>)

\* ---------------------------------------------------------- _check_overlap
\* mutant: only the most recently placed rectangle is tested
CheckOverlap_LastOnly(current_rect, used) ==
    /\ used # <<>>
    /\ LET u == used[Len(used)]
       IN  /\ current_rect[1] < u[1] + u[3]
           /\ current_rect[1] + current_rect[3] > u[1]
           /\ current_rect[2] < u[2] + u[4]
           /\ current_rect[2] + current_rect[4] > u[2]

\* lines 192-199
CheckOverlap(current_rect, used) ==
    \E k \in 1..Len(used) :
        /\ current_rect[1] < used[k][1] + used[k][3]
        /\ current_rect[1] + current_rect[3] > used[k][1]
        /\ current_rect[2] < used[k][2] + used[k][4]
        /\ current_rect[2] + current_rect[4] > used[k][2]

\* ------------------------------------------------- _find_optimal_position
\* lines 176-180: the clamped starting candidate
StartPosition(bbox, text_width, text_height, page_width, page_height) ==
    << Max(Pt(Margin), Min(bbox[1], page_width - text_width - Pt(Margin))),
       Max(Pt(Margin), Min(page_height - bbox[4] - text_height - Pt(RowGap),
                           page_height - text_height - Pt(Margin))) >>

\* line 183: the candidate moves by one row
MoveRow(cy, text_height) == cy - (text_height + Pt(RowGap))

\* mutant: the next column starts without the 10 pt gap
AdvanceX_NoGap(cx, text_width, page_width) ==
    IF cx + text_width + text_width > page_width - Pt(Margin)
    THEN Pt(Margin)
    ELSE cx + text_width

\* lines 186-188: the next column, or the left margin
AdvanceX(cx, text_width, page_width) ==
    IF cx + text_width + Pt(ColumnGap) + text_width > page_width - Pt(Margin)
    THEN Pt(Margin)
    ELSE cx + text_width + Pt(ColumnGap)

\* mutant: the wrap restarts at the page top without the margin
Wrap_NoTopMargin(cx, cy, text_width, text_height, page_width, page_height) ==
    IF cy < Pt(Margin)
    THEN << AdvanceX(cx, text_width, page_width),
            page_height - text_height >>
    ELSE << cx, cy >>

\* lines 184-188: below the bottom margin the candidate wraps to the top of
\* the next column
Wrap(cx, cy, text_width, text_height, page_width, page_height) ==
    IF cy < Pt(Margin)
    THEN << AdvanceX(cx, text_width, page_width),
            page_height - text_height - Pt(Margin) >>
    ELSE << cx, cy >>

\* ------------------------------------------- _draw_text_block, line 146-152
BackgroundOp(blk, px, py, w, h) ==
    [op |-> "rect", blk |-> blk,
     at |-> << px - Pt(Padding), py - Pt(Padding),
               w + 2 * Pt(Padding), h + 2 * Pt(Padding) >>,
     text |-> <<>>]

\* line 158: drawRightString(x + width, y + height - 2, text)
TextOp(blk, text, px, py, w, h) ==
    [op |-> "text", blk |-> blk, at |-> << px + w, py + h - Pt(2) >>,
     text |-> text]

\* _draw_connection_line, lines 166-171
LineOp(blk, px, py, bbox, w, h, page_height) ==
    [op |-> "line", blk |-> blk,
     at |-> << px + w \div 2, py + h \div 2,
               (bbox[1] + bbox[3]) \div 2,
               page_height - ((bbox[2] + bbox[4]) \div 2) >>,
     text |-> <<>>]

\* ------------------------------------------------ create_translated_overlay
CurBlock == translated_blocks[i]
CurDims == GetTextDimensions(CurBlock.text)
CurRect == << x, y, CurDims[1], CurDims[2] >>

\* process_page has not been called
PageIdle ==
    /\ page_content = <<>>
    /\ page_num = 0
    /\ ppc = "idle"
    /\ sorted_content = <<>>
    /\ j = 1
    /\ text_batch = <<>>
    /\ blocks_to_process = <<>>
    /\ page_translated = <<>>
    /\ calls = <<>>
    /\ page_result = <<>>

\* create_translated_overlay has not been called
OverlayIdle ==
    /\ page_size = <<>>
    /\ translated_blocks = <<>>
    /\ fontRegistered = TRUE
    /\ pc = "idle"
    /\ dims = <<>>
    /\ i = 1
    /\ used_positions = <<>>
    /\ surface = <<>>
    /\ x = 0
    /\ y = 0
    /\ log = {}
    /\ result = NoResult

InitOverlay ==
    /\ PageIdle
    /\ page_size \in PageSizes
    /\ translated_blocks \in SeqsUpTo(OverlayBlockChoices, MaxOverlayBlocks)
    /\ fontRegistered \in BOOLEAN
    /\ pc = "entry"
    /\ dims = <<>>
    /\ i = 1
    /\ used_positions = <<>>
    /\ surface = <<>>
    /\ x = 0
    /\ y = 0
    /\ log = {}
    /\ result = NoResult

\* lines 64-68.  page_size[0] / page_size[1] of a malformed tuple raises
\* before width and height are bound, and the handler of line 102 then reads
\* them at line 104.
OverlayEntry ==
    /\ UNCHANGED pageVars
    /\ pc = "entry"
    /\ IF Len(page_size) < 2
       THEN /\ result' = Raised("UnboundLocalError")
            /\ pc' = "returned"
            /\ UNCHANGED dims
       ELSE /\ dims' = page_size
            /\ \/ /\ pc' = "blocks"
                  /\ UNCHANGED result
               \/ \* canvas.Canvas raises: handler of line 102
                  /\ pc' = "returned"
                  /\ result' = CreateEmptyPage(page_size[1], page_size[2])
    /\ UNCHANGED << page_size, translated_blocks, fontRegistered, i,
                    used_positions, surface, x, y, log >>

\* lines 70-84 for block i, up to the first test of the while loop
OverlayBlock ==
    /\ UNCHANGED pageVars
    /\ pc = "blocks"
    /\ i <= Len(translated_blocks)
    /\ IF CurBlock.type # "text" \/ Get(CurBlock, "text", <<>>) = <<>>
       THEN \* line 73: continue
            /\ i' = i + 1
            /\ UNCHANGED << pc, x, y, log >>
       ELSE IF "original_bbox" \notin DOMAIN CurBlock
       THEN \* line 81 raises KeyError: handler of line 94
            /\ i' = i + 1
            /\ log' = log \cup {i}
            /\ UNCHANGED << pc, x, y >>
       ELSE LET p == StartPosition(CurBlock.original_bbox, CurDims[1],
                                   CurDims[2], dims[1], dims[2])
            IN  /\ x' = p[1]
                /\ y' = p[2]
                /\ pc' = "placing"
                /\ UNCHANGED << i, log >>
    /\ UNCHANGED << page_size, translated_blocks, fontRegistered, dims,
                    used_positions, surface, result >>

\* lines 182-183: the loop test holds and the candidate moves by one row
OverlayLoopMove ==
    /\ UNCHANGED pageVars
    /\ pc = "placing"
    /\ CheckOverlap(CurRect, used_positions)
    /\ y' = MoveRow(y, CurDims[2])
    /\ pc' = "moved"
    /\ UNCHANGED << page_size, translated_blocks, fontRegistered, dims, i,
                    used_positions, surface, x, log, result >>

\* lines 184-188, then back to the loop test
OverlayLoopWrap ==
    /\ UNCHANGED pageVars
    /\ pc = "moved"
    /\ LET p == Wrap(x, y, CurDims[1], CurDims[2], dims[1], dims[2])
       IN  /\ x' = p[1]
           /\ y' = p[2]
    /\ pc' = "placing"
    /\ UNCHANGED << page_size, translated_blocks, fontRegistered, dims, i,
                    used_positions, surface, log, result >>

\* lines 190, 87-92: the loop test fails, (x, y) is returned and drawn.
\* setFont('Arabic', ...) raises when the font was never registered; the
\* background rectangle of line 146 is on the canvas by then.
OverlayPlace ==
    /\ UNCHANGED pageVars
    /\ pc = "placing"
    /\ ~CheckOverlap(CurRect, used_positions)
    /\ IF fontRegistered
       THEN /\ surface' = surface \o
                << BackgroundOp(i, x, y, CurDims[1], CurDims[2]),
                   TextOp(i, ProcessText(CurBlock.text), x, y,
                          CurDims[1], CurDims[2]),
                   LineOp(i, x, y, CurBlock.original_bbox,
                          CurDims[1], CurDims[2], dims[2]) >>
            /\ used_positions' = Append(used_positions, CurRect)
            /\ UNCHANGED log
       ELSE /\ surface' = Append(surface,
                                 BackgroundOp(i, x, y, CurDims[1], CurDims[2]))
            /\ log' = log \cup {i}
            /\ UNCHANGED used_positions
    /\ i' = i + 1
    /\ pc' = "blocks"
    /\ UNCHANGED << page_size, translated_blocks, fontRegistered, dims, x, y,
                    result >>

\* lines 98-100, and the handler of line 102 when c.save() raises
OverlaySave ==
    /\ UNCHANGED pageVars
    /\ pc = "blocks"
    /\ i > Len(translated_blocks)
    /\ \/ result' = Packet(page_size, surface)
       \/ result' = CreateEmptyPage(dims[1], dims[2])
    /\ pc' = "returned"
    /\ UNCHANGED << page_size, translated_blocks, fontRegistered, dims, i,
                    used_positions, surface, x, y, log >>

NextOverlay ==
    \/ OverlayEntry
    \/ OverlayBlock
    \/ OverlayLoopMove
    \/ OverlayLoopWrap
    \/ OverlayPlace
    \/ OverlaySave

SpecOverlay == InitOverlay /\ [][NextOverlay]_vars

\* The interpreter keeps running the loop: weak fairness of each step.
SpecOverlayFair == SpecOverlay /\ WF_vars(NextOverlay)

\* ============================================================ process_page
\* bounds of the inputs
MaxPageBlocks == 25
MaxPattern == 2
MaxTextLen == 4

WhiteSpace == {" ", "\t"}
Digits == {"7"}
Alphabet == WhiteSpace \cup Digits \cup {"a"}

\* str.strip()
RECURSIVE LStrip(_)
LStrip(s) ==
    IF s # <<>> /\ Head(s) \in WhiteSpace THEN LStrip(Tail(s)) ELSE s

Strip(s) == Reverse(LStrip(Reverse(LStrip(s))))

\* str.isdigit(): non-empty and digits only
IsDigit(s) == s # <<>> /\ \A k \in 1..Len(s) : s[k] \in Digits

\* mutant: fragments of exactly three characters are dropped as well
ShouldProcessBlock_Off(block) ==
    IF Get(block, "text", <<>>) = <<>>
    THEN FALSE
    ELSE LET text == Strip(Get(block, "text", <<>>))
         IN  ~(Len(text) <= 3 \/ IsDigit(text))

\* _should_process_block, lines 106-118
ShouldProcessBlock(block) ==
    IF Get(block, "text", <<>>) = <<>>
    THEN FALSE
    ELSE LET text == Strip(Get(block, "text", <<>>))
         IN  ~(Len(text) < 3 \/ IsDigit(text))

NoBbox == << 0, 0, 0, 0 >>

\* line 37: the sort key (-bbox[1], bbox[0]), compared as tuples
KeyLess(a, b) ==
    LET ka == Get(a, "bbox", NoBbox)
        kb == Get(b, "bbox", NoBbox)
    IN  \/ -ka[2] < -kb[2]
        \/ -ka[2] = -kb[2] /\ ka[1] < kb[1]

\* sorted() is stable: an element goes behind every element that is not
\* greater than it
RECURSIVE InsertSorted(_, _)
InsertSorted(e, s) ==
    IF s = <<>> THEN << e >>
    ELSE IF KeyLess(e, Head(s)) THEN << e >> \o s
    ELSE << Head(s) >> \o InsertSorted(e, Tail(s))

RECURSIVE SortedFrom(_, _)
SortedFrom(rest, acc) ==
    IF rest = <<>> THEN acc
    ELSE SortedFrom(Tail(rest), InsertSorted(Head(rest), acc))

\* lines 35-38
Sorted(content) == SortedFrom(content, <<>>)

\* ------------------------------------------------------------- translator
\* Python values a translator can put in its reply
PyStr(s) == [str |-> s]
PyInt == [int |-> 7]
IsStr(v) == "str" \in DOMAIN v

Translated(text) == << "T" >> \o text

\* text_processor.process_text_batch: an external collaborator.  A mode
\* fixes its reply to one call.
TranslatorModes == {"all", "oddEmpty", "evenBlank", "raise", "secondNotStr"}

Reply(mode, texts) ==
    [k \in 1..Len(texts) |->
        CASE mode = "oddEmpty" /\ k % 2 = 1 -> PyStr(<<>>)
          [] mode = "evenBlank" /\ k % 2 = 0 -> PyStr(<< " ", "\t" >>)
          [] mode = "evenBlank" /\ k % 2 = 1 ->
                 PyStr(<< " " >> \o Translated(texts[k]) \o << " " >>)
          [] mode = "secondNotStr" /\ k = 2 -> PyInt
          [] OTHER -> PyStr(Translated(texts[k]))]

\* ---------------------------------------------------------- _process_batch
\* mutant: the translation is not trimmed before the emptiness test
KeepsTranslation_NoStrip(trans) == trans # <<>>

\* line 126: trans and trans.strip()
KeepsTranslation(trans) == trans # <<>> /\ Strip(trans) # <<>>

\* lines 127-134
TranslatedBlock(trans, block, pnum) ==
    [text |-> trans,
     original_text |-> Get(block, "text", <<>>),
     bbox |-> Get(block, "bbox", NoBbox),
     original_bbox |-> Get(block, "bbox", NoBbox),
     type |-> "text",
     page |-> pnum]

\* lines 125-135: the zip loop; a truthy non-string raises AttributeError at
\* trans.strip() and the handler of line 137 ends the batch
RECURSIVE ZipLoop(_, _, _, _)
ZipLoop(translations, blocks, acc, pnum) ==
    IF translations = <<>> \/ blocks = <<>>
    THEN [out |-> acc, raised |-> FALSE]
    ELSE IF ~IsStr(Head(translations))
    THEN [out |-> acc, raised |-> TRUE]
    ELSE IF KeepsTranslation(Head(translations).str)
    THEN ZipLoop(Tail(translations), Tail(blocks),
                 Append(acc, TranslatedBlock(Head(translations).str,
                                             Head(blocks), pnum)),
                 pnum)
    ELSE ZipLoop(Tail(translations), Tail(blocks), acc, pnum)

\* lines 120-138 under one reply mode of the translator
ProcessBatch(mode, texts, blocks, acc, pnum) ==
    IF mode = "raise"
    THEN [out |-> acc, raised |-> TRUE]
    ELSE ZipLoop(Reply(mode, texts), blocks, acc, pnum)

Call(mode, texts, blocks, raised) ==
    [texts |-> texts, blocks |-> blocks, mode |-> mode, raised |-> raised,
     reply |-> IF mode = "raise" THEN <<>> ELSE Reply(mode, texts)]

\* ------------------------------------------------------------------ inputs
EmptyDict == [k \in {} |-> 0]

TextPool ==
    << [text |-> << "a", "a", "a" >>],
       [text |-> << "7", "7" >>],
       [text |-> << " ", "a", "7", "a", "\t" >>],
       [text |-> << "a", "a" >>],
       [text |-> << "7", "a", "7", "a" >>],
       EmptyDict,
       [text |-> << "7", "7", "7" >>] >>

PatternBlock(p, k) ==
    TextPool[((k * p) % Len(TextPool)) + 1] @@
    ( IF k % 6 = 0
      THEN EmptyDict
      ELSE [bbox |-> Bbox(((k * 2) % 3) * 50, ((k * 3) % 5) * 100,
                          ((k * 2) % 3) * 50 + 40, ((k * 3) % 5) * 100 + 20)] )

PatternPages ==
    { [k \in 1..n |-> PatternBlock(p, k)] :
          p \in 0..MaxPattern, n \in 0..MaxPageBlocks }

SinglePages ==
    { << [text |-> t, bbox |-> Bbox(10, 700, 60, 720)] >> :
          t \in SeqsUpTo(Alphabet, MaxTextLen) }

\* ------------------------------------------------------------ process_page
\* mutant: a batch is sent only once it holds more than batch_size texts
BatchFull_Late(batch) == Len(batch) > BatchSize

\* line 47
BatchFull(batch) == Len(batch) >= BatchSize

InitPage ==
    /\ OverlayIdle
    /\ page_content \in PatternPages \cup SinglePages
    /\ page_num = 0
    /\ ppc = "entry"
    /\ sorted_content = <<>>
    /\ j = 1
    /\ text_batch = <<>>
    /\ blocks_to_process = <<>>
    /\ page_translated = <<>>
    /\ calls = <<>>
    /\ page_result = <<>>

\* lines 24-38
PageEntry ==
    /\ UNCHANGED overlayVars
    /\ ppc = "entry"
    /\ IF page_content = <<>>
       THEN /\ ppc' = "returned"
            /\ UNCHANGED sorted_content
       ELSE /\ sorted_content' = Sorted(page_content)
            /\ ppc' = "loop"
    /\ UNCHANGED << page_content, page_num, j, text_batch, blocks_to_process,
                    page_translated, calls, page_result >>

\* lines 40-50: one iteration of the for loop
PageLoop ==
    /\ UNCHANGED overlayVars
    /\ ppc = "loop"
    /\ j <= Len(sorted_content)
    /\ j' = j + 1
    /\ LET block == sorted_content[j]
           texts == Append(text_batch, Get(block, "text", <<>>))
           blocks == Append(blocks_to_process, block)
       IN  IF ~ShouldProcessBlock(block)
           THEN UNCHANGED << text_batch, blocks_to_process, page_translated,
                             calls >>
           ELSE IF ~BatchFull(texts)
           THEN /\ text_batch' = texts
                /\ blocks_to_process' = blocks
                /\ UNCHANGED << page_translated, calls >>
           ELSE \E mode \in TranslatorModes :
                  LET r == ProcessBatch(mode, texts, blocks, page_translated,
                                        page_num)
                  IN  /\ page_translated' = r.out
                      /\ calls' = Append(calls,
                                         Call(mode, texts, blocks, r.raised))
                      /\ text_batch' = <<>>
                      /\ blocks_to_process' = <<>>
    /\ UNCHANGED << page_content, page_num, ppc, sorted_content, page_result >>

\* lines 52-56: the remaining blocks, then return
PageFinish ==
    /\ UNCHANGED overlayVars
    /\ ppc = "loop"
    /\ j > Len(sorted_content)
    /\ IF text_batch # <<>>
       THEN \E mode \in TranslatorModes :
              LET r == ProcessBatch(mode, text_batch, blocks_to_process,
                                    page_translated, page_num)
              IN  /\ page_translated' = r.out
                  /\ page_result' = r.out
                  /\ calls' = Append(calls, Call(mode, text_batch,
                                                 blocks_to_process, r.raised))
       ELSE /\ page_result' = page_translated
            /\ UNCHANGED << page_translated, calls >>
    /\ ppc' = "returned"
    /\ UNCHANGED << page_content, page_num, sorted_content, j, text_batch,
                    blocks_to_process >>

NextPage ==
    \/ PageEntry
    \/ PageLoop
    \/ PageFinish

SpecPage == InitPage /\ [][NextPage]_vars

\* =================================================== overlay properties
WellFormedPage == Len(page_size) = 2

\* _find_optimal_position is at its return statement (line 190)
AtReturn == pc = "placing" /\ ~CheckOverlap(CurRect, used_positions)

\* the text box of the block being placed fits between the margins
Fits ==
    /\ CurDims[1] <= dims[1] - 2 * Pt(Margin)
    /\ CurDims[2] <= dims[2] - 2 * Pt(Margin)

\* open-rectangle intersection: both the x-ranges and the y-ranges of the
\* two rectangles strictly intersect
RangesMeet(lo1, len1, lo2, len2) ==
    Max(lo1, lo2) < Min(lo1 + len1, lo2 + len2)

RectsOverlap(r, s) ==
    /\ RangesMeet(r[1], r[3], s[1], s[3])
    /\ RangesMeet(r[2], r[4], s[2], s[4])

StartOf(k) ==
    LET b == translated_blocks[k]
        d == GetTextDimensions(b.text)
    IN  StartPosition(b.original_bbox, d[1], d[2], dims[1], dims[2])

\* C1: after any prefix of the blocks has been processed, no two rectangles
\* recorded in used_positions overlap (both ranges strictly intersect); the
\* Hello / World scenario on a 612x792 page yields the two disjoint
\* placements (10, 46) and (10, 96).
C1_NoOverlap ==
    /\ \A a \in 1..Len(used_positions) : \A b \in 1..Len(used_positions) :
           a < b => ~RectsOverlap(used_positions[a], used_positions[b])
    /\ ( /\ page_size = Letter
         /\ translated_blocks = << TBlock(Hello, Bbox(10, 700, 60, 720)),
                                   TBlock(World, Bbox(10, 650, 60, 670)) >>
         /\ fontRegistered
         /\ pc = "blocks"
         /\ i = 3 )
       => used_positions = << << Pt(10), Pt(46), Pt(42), Pt(21) >>,
                              << Pt(10), Pt(96), Pt(42), Pt(21) >> >>

\* three rectangles are placed and the last one had to leave its starting
\* candidate because of the earlier ones
C1_Witness ==
    /\ Len(translated_blocks) = 3
    /\ Len(used_positions) = 3
    /\ << used_positions[3][1], used_positions[3][2] >> # StartOf(3)

\* C2 as stated: every returned position lies within the 5 pt margins,
\* whatever the text size.
C2_WithinMarginsAlways ==
    AtReturn =>
        /\ Pt(Margin) <= x /\ x <= dims[1] - CurDims[1] - Pt(Margin)
        /\ Pt(Margin) <= y /\ y <= dims[2] - CurDims[2] - Pt(Margin)

\* C2 amended: every returned position of a text box that fits between the
\* margins (width <= pageWidth - 10, height <= pageHeight - 10) satisfies
\* 5 <= x <= pageWidth - width - 5 and 5 <= y <= pageHeight - height - 5.
C2_WithinMarginsWhenFits ==
    (AtReturn /\ Fits) =>
        /\ Pt(Margin) <= x /\ x <= dims[1] - CurDims[1] - Pt(Margin)
        /\ Pt(Margin) <= y /\ y <= dims[2] - CurDims[2] - Pt(Margin)

\* a fitting box is returned in another column than its starting candidate
C2_Witness ==
    /\ AtReturn
    /\ Fits
    /\ used_positions # <<>>
    /\ x # StartOf(i)[1]

\* C3: whenever every text box fits between the margins, the overlap
\* resolution loop terminates for every block, so the call returns.
AllFit ==
    /\ WellFormedPage
    /\ \A k \in 1..Len(translated_blocks) :
          LET d == GetTextDimensions(Get(translated_blocks[k], "text", <<>>))
          IN  /\ d[1] <= page_size[1] - 2 * Pt(Margin)
              /\ d[2] <= page_size[2] - 2 * Pt(Margin)

C3_Terminates == AllFit => <>(pc = "returned")

\* C7: the call never fails outright: it returns a page surface, and an
\* empty one of the requested size when the pass raised outside the
\* per-block handler.
C7_NeverFails == pc = "returned" => result.kind = "packet"

\* C8: a block whose processing raised, or that is not a non-empty text
\* block, leaves no drawing operation on the surface and no entry in
\* used_positions.
Skipped(k) ==
    \/ k \in log
    \/ translated_blocks[k].type # "text"
    \/ Get(translated_blocks[k], "text", <<>>) = <<>>

C8_SkippedLeavesNoTrace ==
    /\ \A k \in 1..Len(surface) : ~Skipped(surface[k].blk)
    /\ Len(used_positions) = Cardinality({k \in 1..(i - 1) : ~Skipped(k)})

\* C10 setting: only one row fits (page height = 1.5 x text height), three
\* blocks of one size with one starting candidate were all placed, and
\* the page is wide enough for three columns of that size.
OneRowPage == WellFormedPage /\ 2 * page_size[2] = 3 * TextHeight

ThreeAlike ==
    /\ OneRowPage
    /\ Len(translated_blocks) = 3
    /\ Len(used_positions) = 3
    /\ \A k \in 2..3 : /\ used_positions[k][3] = used_positions[1][3]
                       /\ StartOf(k) = StartOf(1)
    /\ 3 * used_positions[1][3] + 2 * Pt(ColumnGap)
          <= page_size[1] - 2 * Pt(Margin)

\* C10 as stated: on a one-row page every overlap-resolution step wraps y
\* to pageHeight - textHeight - 5 and changes x; three alike blocks put at
\* least one block at x = startX + (width + 10).
C10_WrapChangesX ==
    /\ [][ (pc = "moved" /\ pc' = "placing" /\ OneRowPage) =>
             /\ y' = dims[2] - CurDims[2] - Pt(Margin)
             /\ x' # x ]_vars
    /\ [](ThreeAlike =>
             \E k \in 1..3 :
                 used_positions[k][1] =
                     StartOf(1)[1] + used_positions[1][3] + Pt(ColumnGap))

\* C10 amended: on a one-row page every overlap-resolution step wraps y to
\* pageHeight - textHeight - 5 and moves x to x + width + 10, or to 5 when
\* that column would end beyond pageWidth - 5; three alike blocks put the
\* second block at startX + (width + 10) when that column fits and at
\* x = 5 otherwise.
NextColumnFits(cx, w) ==
    cx + w + Pt(ColumnGap) + w <= dims[1] - Pt(Margin)

C10_WrapMovesColumn ==
    /\ [][ (pc = "moved" /\ pc' = "placing" /\ OneRowPage) =>
             /\ y' = dims[2] - CurDims[2] - Pt(Margin)
             /\ NextColumnFits(x, CurDims[1]) =>
                    x' = x + CurDims[1] + Pt(ColumnGap)
             /\ ~NextColumnFits(x, CurDims[1]) => x' = Pt(Margin) ]_vars
    /\ [](ThreeAlike =>
             LET sx == StartOf(1)[1]
                 w == used_positions[1][3]
             IN  /\ NextColumnFits(sx, w) =>
                        used_positions[2][1] = sx + w + Pt(ColumnGap)
                 /\ ~NextColumnFits(sx, w) =>
                        used_positions[2][1] = Pt(Margin))

\* three alike blocks were placed and the second went one column to the
\* right of the shared starting candidate
C10_Witness ==
    /\ ThreeAlike
    /\ used_positions[2][1] =
           StartOf(1)[1] + used_positions[1][3] + Pt(ColumnGap)

\* ====================================================== page properties
RECURSIVE Flatten(_)
Flatten(ss) == IF ss = <<>> THEN <<>> ELSE Head(ss) \o Flatten(Tail(ss))

CallTexts == Flatten([k \in 1..Len(calls) |-> calls[k].texts])
CallBlocks == Flatten([k \in 1..Len(calls) |-> calls[k].blocks])
CallReplies == Flatten([k \in 1..Len(calls) |-> calls[k].reply])

\* the filter policy as the specification words it: the text without its
\* leading and trailing whitespace has at least three characters, one of
\* which is no digit
Inner(t) == { k \in 1..Len(t) : t[k] \notin WhiteSpace }

Eligible(block) ==
    /\ "text" \in DOMAIN block
    /\ Inner(block.text) # {}
    /\ LET lo == CHOOSE k \in Inner(block.text) :
                     \A m \in Inner(block.text) : k <= m
           hi == CHOOSE k \in Inner(block.text) :
                     \A m \in Inner(block.text) : k >= m
       IN  /\ hi - lo + 1 >= 3
           /\ \E k \in lo..hi : block.text[k] \notin Digits

EligibleIndices == { k \in 1..Len(page_content) : Eligible(page_content[k]) }

Count(s, e) == Cardinality({ k \in 1..Len(s) : s[k] = e })

SameElements(s, t) ==
    /\ Len(s) = Len(t)
    /\ \A k \in 1..Len(s) : Count(s, s[k]) = Count(t, s[k])

\* reading order: nearer the page top (larger bbox[1]) first, then leftmost
InReadingOrder(a, b) ==
    LET ba == Get(a, "bbox", NoBbox)
        bb == Get(b, "bbox", NoBbox)
    IN  \/ ba[2] > bb[2]
        \/ ba[2] = bb[2] /\ ba[1] <= bb[1]

\* C4: n eligible blocks give exactly ceil(n/10) translator calls, all of
\* 10 texts but the last, which carries the remaining ones; the texts of
\* the calls, in call order, are the eligible blocks' texts sorted by
\* descending bbox[1] and then ascending bbox[0].
C4_Batching ==
    ppc = "returned" =>
        LET n == Cardinality(EligibleIndices)
            c == Len(calls)
        IN  /\ c = (n + BatchSize - 1) \div BatchSize
            /\ \A k \in 1..(c - 1) : Len(calls[k].texts) = BatchSize
            /\ c > 0 => Len(calls[c].texts) = n - BatchSize * (c - 1)
            /\ Len(CallTexts) = Len(CallBlocks)
            /\ \A k \in 1..Len(CallTexts) :
                   CallTexts[k] = Get(CallBlocks[k], "text", <<>>)
            /\ \A k \in 1..(Len(CallBlocks) - 1) :
                   InReadingOrder(CallBlocks[k], CallBlocks[k + 1])
            /\ SameElements(CallBlocks,
                            SelectSeq(page_content, Eligible))

\* 25 eligible blocks went out in calls of 10, 10 and 5 texts
C4_Witness ==
    /\ ppc = "returned"
    /\ Cardinality(EligibleIndices) = 25
    /\ Len(calls) = 3
    /\ Len(calls[1].texts) = 10
    /\ Len(calls[2].texts) = 10
    /\ Len(calls[3].texts) = 5

\* a translation that is non-empty after trimming
NonBlank(s) == \E k \in 1..Len(s) : s[k] \notin WhiteSpace

\* the translator kept its contract in every call: one string per input
RepliesWellFormed ==
    \A k \in 1..Len(calls) :
        /\ calls[k].mode # "raise"
        /\ Len(calls[k].reply) = Len(calls[k].texts)
        /\ \A m \in 1..Len(calls[k].reply) : IsStr(calls[k].reply[m])

KeptIndices == { k \in 1..Len(CallReplies) : NonBlank(CallReplies[k].str) }

\* C5: when the translator returns one string per input, the result holds
\* exactly one TranslatedBlock per eligible block whose translation is
\* non-empty after trimming, carrying the original_text and original_bbox
\* of the block at the same position, in the order of the source blocks.
C5_OneToOne ==
    (ppc = "returned" /\ RepliesWellFormed) =>
        /\ Len(page_result) = Cardinality(KeptIndices)
        /\ \A r \in 1..Len(page_result) :
             \E k \in KeptIndices :
               /\ Cardinality({ m \in KeptIndices : m <= k }) = r
               /\ page_result[r].text = CallReplies[k].str
               /\ page_result[r].original_text =
                      Get(CallBlocks[k], "text", <<>>)
               /\ page_result[r].original_bbox =
                      Get(CallBlocks[k], "bbox", NoBbox)
               /\ Eligible(CallBlocks[k])

\* two well-formed calls were made, some translations were blank and
\* dropped, the others were kept
C5_Witness ==
    /\ ppc = "returned"
    /\ RepliesWellFormed
    /\ Len(calls) >= 2
    /\ page_result # <<>>
    /\ Len(page_result) < Len(CallReplies)
    /\ \E k \in 1..Len(CallReplies) :
           CallReplies[k].str # <<>> /\ ~NonBlank(CallReplies[k].str)

\* what a batch contributes when its handling did not raise
RECURSIVE Kept(_, _)
Kept(reply, blocks) ==
    IF reply = <<>> \/ blocks = <<>> THEN <<>>
    ELSE ( IF IsStr(Head(reply)) /\ NonBlank(Head(reply).str)
           THEN << TranslatedBlock(Head(reply).str, Head(blocks), page_num) >>
           ELSE <<>> )
         \o Kept(Tail(reply), Tail(blocks))

\* C6: a batch whose handling raised contributes no TranslatedBlock, the
\* page is not aborted, and every other batch is submitted and contributes
\* as if the failed batch had returned nothing.
C6_FailedBatchContributesNothing ==
    ppc = "returned" =>
        /\ Len(calls) =
               (Cardinality(EligibleIndices) + BatchSize - 1) \div BatchSize
        /\ page_result =
               Flatten([k \in 1..Len(calls) |->
                           IF calls[k].raised
                           THEN <<>>
                           ELSE Kept(calls[k].reply, calls[k].blocks)])

\* C9: a block is accepted if and only if its trimmed text has at least 3
\* characters and is not all digits (missing or empty text is rejected),
\* and the translator is sent exactly the accepted blocks.
C9_Filter ==
    /\ \A k \in 1..Len(page_content) :
           ShouldProcessBlock(page_content[k]) <=> Eligible(page_content[k])
    /\ ppc = "returned" =>
           /\ SameElements(CallBlocks, SelectSeq(page_content, Eligible))
           /\ SameElements(CallTexts,
                  [k \in 1..Len(SelectSeq(page_content, Eligible)) |->
                      SelectSeq(page_content, Eligible)[k].text])

\* a page went through the filter that holds an accepted block with
\* surrounding whitespace, a digits-only block, a two-letter block and a
\* block without text
C9_Witness ==
    /\ ppc = "returned"
    /\ calls # <<>>
    /\ \E k \in EligibleIndices : page_content[k].text[1] \in WhiteSpace
    /\ \E k \in 1..Len(page_content) :
           page_content[k] = TextPool[2] @@ PatternBlock(0, k)
    /\ \E k \in 1..Len(page_content) :
           page_content[k] = TextPool[4] @@ PatternBlock(0, k)
    /\ \E k \in 1..Len(page_content) : "text" \notin DOMAIN page_content[k]
====
